---- MODULE Spec2Model ----
(***************************************************************************)
(* A model of distmat.Wishart (src/distmat/wishart.go): construction, the  *)
(* lazily cached mean, the (log-)density and the Bartlett sampler.         *)
(*                                                                         *)
(* Numbers.  A float64 is modelled as a record [nan, h]: either NaN or the *)
(* dyadic value h/2.  Halves are exactly representable in float64, and     *)
(* every sum, difference and product the model forms stays on that grid,   *)
(* so the arithmetic below is the float64 arithmetic on these values.      *)
(* Logarithms, exponentials and the trace term of the density are kept as  *)
(* uninterpreted terms.                                                    *)
(***************************************************************************)
EXTENDS Integers, Sequences, FiniteSets, TLC

\* ------------------------------------------------------------------ bounds
MaxDim == 2      \* matrix orders 1..MaxDim
MaxDiag == 2     \* diagonal entries of the generating Cholesky factors
MaxNuH == 4      \* nu ranges over 0, 1/2, 1, ..., MaxNuH/2 and NaN
MaxObjs == 2     \* heap cells for SymDense objects; one is kept for the cache
MaxDraws == 3    \* no sampling call starts once the source gave this many values
NThreads == 2    \* goroutines calling MeanSym concurrently

\* ------------------------------------------------------------------ float64
F(h) == [nan |-> FALSE, h |-> h]
NaN == [nan |-> TRUE, h |-> 0]
Whole(k) == F(2 * k)
ToInt(a) == a.h \div 2

\* Go's comparisons: every comparison with NaN is false.
FLe(a, b) == ~a.nan /\ ~b.nan /\ a.h <= b.h
FGt(a, b) == ~a.nan /\ ~b.nan /\ a.h > b.h

FAdd(a, b) == IF a.nan \/ b.nan THEN NaN ELSE F(a.h + b.h)
FSub(a, b) == IF a.nan \/ b.nan THEN NaN ELSE F(a.h - b.h)
\* (a.h/2)*(b.h/2) in halves; one operand is always whole in this model.
FMul(a, b) == IF a.nan \/ b.nan THEN NaN ELSE F((a.h * b.h) \div 2)

ISqrt(s) == CHOOSE r \in 0..s : r * r = s
\* math.Sqrt: NaN for NaN and for negative arguments.
FSqrt(a) == IF a.nan \/ a.h < 0 THEN NaN ELSE Whole(ISqrt(ToInt(a)))

\* ------------------------------------------------------------------ matrices
\* A square matrix of order n; n = 0 is the empty matrix &SymDense{}.
Mat(n, f(_, _)) == [n |-> n, a |-> [i \in 1..n |-> [j \in 1..n |-> f(i, j)]]]
At(m, i, j) == m.a[i][j]
EmptyMat == [n |-> 0, a |-> <<>>]
\* mat64.NewSymDense(n, nil) and mat64.NewTriDense(n, Upper, nil): zeros.
ZeroMat(n) == Mat(n, LAMBDA i, j : Whole(0))

RECURSIVE SumSeq(_)
SumSeq(s) ==
  IF Len(s) = 0 THEN Whole(0)
  ELSE FAdd(SumSeq(SubSeq(s, 1, Len(s) - 1)), s[Len(s)])

\* The product x*y of two matrices of the same order.
MatMul(x, y) ==
  Mat(x.n, LAMBDA i, j : SumSeq([k \in 1..x.n |-> FMul(At(x, i, k), At(y, k, j))]))
\* U^T * U.
Gram(u) ==
  Mat(u.n, LAMBDA i, j : SumSeq([k \in 1..u.n |-> FMul(At(u, k, i), At(u, k, j))]))

\* ------------------------------------------------------------------ mat64.Cholesky
\* A Cholesky value holds the upper factor u of order n (U^T U = the matrix).
NoChol == [n |-> 0, u |-> EmptyMat]

RECURSIVE ISum(_)
ISum(s) == IF Len(s) = 0 THEN 0 ELSE ISum(SubSeq(s, 1, Len(s) - 1)) + s[Len(s)]

\* Row j of the factor from the rows above it (the Cholesky-Banachiewicz
\* recurrence); the factorization fails at the first pivot that is not positive.
RECURSIVE CholRows(_, _, _)
CholRows(v, j, rows) ==
  IF j > v.n THEN [ok |-> TRUE, rows |-> rows]
  ELSE LET s == ToInt(At(v, j, j)) - ISum([k \in 1..(j - 1) |-> rows[k][j] * rows[k][j]])
       IN IF s <= 0 THEN [ok |-> FALSE, rows |-> rows]
          ELSE LET d == ISqrt(s)
                   row == [i \in 1..v.n |->
                             IF i < j THEN 0
                             ELSE IF i = j THEN d
                             ELSE (ToInt(At(v, j, i))
                                   - ISum([k \in 1..(j - 1) |-> rows[k][j] * rows[k][i]]))
                                  \div d]
               IN CholRows(v, j + 1, Append(rows, row))

\* chol.Factorize(v): (ok, chol).
Factorize(v) ==
  LET r == CholRows(v, 1, <<>>)
  IN IF r.ok
     THEN [ok |-> TRUE,
           chol |-> [n |-> v.n, u |-> Mat(v.n, LAMBDA i, j : Whole(r.rows[i][j]))]]
     ELSE [ok |-> FALSE, chol |-> NoChol]

\* u.UFromCholesky(chol): a copy of the upper factor.
UFromCholesky(chol) == Mat(chol.n, LAMBDA i, j : At(chol.u, i, j))

\* chol.Size().
CholSize(chol) == chol.n

RECURSIVE IProd(_)
IProd(s) == IF Len(s) = 0 THEN 1 ELSE IProd(SubSeq(s, 1, Len(s) - 1)) * s[Len(s)]

\* chol.LogDet() = ln(det) with det the product of the squared diagonal of u;
\* the logarithm is kept as the term [ln |-> det].
LogDet(chol) ==
  [ln |-> IProd([k \in 1..chol.n |-> ToInt(At(chol.u, k, k)) * ToInt(At(chol.u, k, k))])]

\* s.FromCholesky(chol): the matrix U^T U rebuilt from the factor.
FromCholesky(chol) == Gram(chol.u)

\* ------------------------------------------------------------------ inputs
OffVals == {0, 1}
Dims == 1..MaxDim

\* Upper factors of order d: g on the diagonal, o above it.
Factors(d) ==
  { Mat(d, LAMBDA i, j : Whole(IF i = j THEN p[1] ELSE IF i < j THEN p[2] ELSE 0)) :
      p \in (1..MaxDiag) \X OffVals }

\* Symmetric positive-definite matrices (those with a factor in Factors).
SPDInputs == UNION { { Gram(u) : u \in Factors(d) } : d \in Dims }

SetDiag(m, k, x) == Mat(m.n, LAMBDA i, j : IF i = k /\ j = k THEN x ELSE At(m, i, j))
Neg(m) == Mat(m.n, LAMBDA i, j : FSub(Whole(0), At(m, i, j)))

\* Symmetric matrices that are not positive-definite: the factorization breaks
\* down at pivot k (a zero diagonal entry) or at the first pivot (negated).
NonPDInputs ==
  { SetDiag(m[1], m[2], Whole(0)) : m \in { p \in SPDInputs \X Dims : p[2] <= p[1].n } }
  \cup { Neg(m) : m \in SPDInputs }

SymInputs == SPDInputs \cup NonPDInputs

\* The candidate matrices of the density calls: those built from the factors
\* with a unit diagonal.
XSPDInputs ==
  { Gram(Mat(d, LAMBDA i, j : Whole(IF i <= j THEN 1 ELSE 0))) : d \in Dims }
XInputs ==
  XSPDInputs \cup { SetDiag(m, m.n, Whole(0)) : m \in XSPDInputs } \cup { Neg(m) : m \in XSPDInputs }

NuInputs == { F(h) : h \in 0..MaxNuH } \cup {NaN}

\* The injected *rand.Rand: a deterministic generator, given by the sequence
\* of values it repeats (each 0 or 1) and the number of values taken so far.
SeedInputs == { <<0, 1, 1>> }
Source(seed) == [stream |-> seed, pos |-> 0]
\* The next value of the source, and the source after it.
Peek(r) == r.stream[(r.pos % Len(r.stream)) + 1]
Advance(r) == [r EXCEPT !.pos = r.pos + 1]

\* ------------------------------------------------------------------ state
VARIABLES
  w,       \* the Wishart value (NoDist before a successful NewWishart)
  heap,    \* the SymDense objects, by address
  held,    \* addresses of the objects the caller holds a pointer to
  src,     \* state of the injected *rand.Rand
  draws,   \* the draws the last call made, in order
  fills,   \* how often the body of setV's once.Do has run
  ret,     \* outcome of the last call
  pc,      \* per goroutine: its position in MeanSym
  tx       \* per goroutine: the matrix its local x points to

vars == <<w, heap, held, src, draws, fills, ret, pc, tx>>

Threads == 1..NThreads
Addrs == 1..MaxObjs
Nil == 0
\* The order standing for a nil matrix argument.
NilX == 0 - 1

NoDist == [dim |-> 0 - 1]
NoObj == [n |-> 0 - 1, a |-> <<>>]

Free(h) == { a \in Addrs : h[a] = NoObj }
\* The address a fresh allocation gets.
NewAddr(h) == CHOOSE a \in Free(h) : \A b \in Free(h) : a <= b

Ret(op, out, val) == [op |-> op, out |-> out, val |-> val]

\* ------------------------------------------------------------------ NewWishart
\* Mutant: the boundary nu = dim-1 passes the check.
NuRejectedStrict(nu, dim) == ~nu.nan /\ nu.h < 2 * (dim - 1)

\* The parameter check of line 47.
NuRejected(nu, dim) == FLe(nu, Whole(dim - 1))

\* The Wishart value of lines 59-67; once and v are zero values.
MakeWishart(nu, dim, chol) ==
  [nu |-> nu, dim |-> dim, cholv |-> chol, logdetv |-> LogDet(chol),
   upper |-> UFromCholesky(chol), once |-> [done |-> 0, m |-> 0], v |-> Nil]

\* Mutant: a failed factorization panics instead of returning (nil, false).
NewWishartResultPanics(v, nu) ==
  IF NuRejected(nu, v.n) \/ ~Factorize(v).ok THEN [out |-> "panic", w |-> NoDist]
  ELSE [out |-> "ok", w |-> MakeWishart(nu, v.n, Factorize(v).chol)]

\* NewWishart(v, nu, src): panics, returns (nil, false) or returns (w, true).
NewWishartResult(v, nu) ==
  LET dim == v.n
  IN IF NuRejected(nu, dim) THEN [out |-> "panic", w |-> NoDist]
     ELSE LET f == Factorize(v)
          IN IF ~f.ok THEN [out |-> "fail", w |-> NoDist]
             ELSE [out |-> "ok", w |-> MakeWishart(nu, dim, f.chol)]

NewWishart(v, nu, seed) ==
  /\ w = NoDist
  /\ LET r == NewWishartResult(v, nu)
     IN /\ w' = r.w
        /\ src' = IF r.out = "ok" THEN Source(seed) ELSE src
        /\ ret' = Ret("NewWishart", r.out, [v |-> v, nu |-> nu])
  /\ draws' = <<>>
  /\ UNCHANGED <<heap, held, fills, pc, tx>>

\* ------------------------------------------------------------------ MeanSym
\* x.CopySym(a): x takes a's order and elements.
CopySym(a) == Mat(a.n, LAMBDA i, j : At(a, i, j))
\* x.ScaleSym(f, a).
ScaleSym(f, a) == Mat(a.n, LAMBDA i, j : FMul(f, At(a, i, j)))

\* The function passed to once.Do (lines 205-206), on distribution d and heap h.
SetVAlloc(d, h) ==
  LET a == NewAddr(h)
  IN [w |-> [d EXCEPT !.v = a], heap |-> [h EXCEPT ![a] = ZeroMat(d.dim)]]
SetVFill(d, h) == [h EXCEPT ![d.v] = FromCholesky(d.cholv)]

\* once.Do runs its function iff done is still 0.
OnceTodo(o) == o.done = 0

\* setV run to completion by one goroutine.
SetV(d, h) ==
  IF OnceTodo(d.once)
  THEN LET s == SetVAlloc(d, h)
       IN [w |-> [s.w EXCEPT !.once.done = 1], heap |-> SetVFill(s.w, s.heap), n |-> 1]
  ELSE [w |-> d, heap |-> h, n |-> 0]

\* The buffer MeanSym is called with: a matrix the caller holds (x), a matrix
\* of order xn the caller makes for the call, or nil (x = Nil, xn = NilX);
\* then lines 75-77.
MeanBuffer(d, h, x, xn) ==
  IF x # Nil THEN [x |-> x, heap |-> h]
  ELSE [x |-> NewAddr(h),
        heap |-> [h EXCEPT ![NewAddr(h)] = ZeroMat(IF xn = NilX THEN d.dim ELSE xn)]]

\* Lines 83-84 on buffer x.
MeanWrite(d, h, x) == [h EXCEPT ![x] = ScaleSym(d.nu, CopySym(h[d.v]))]

\* Mutant: MeanSym hands out the cached matrix itself.
MeanReturnCache(d, x) == d.v

\* What MeanSym returns (line 85).
MeanReturn(d, x) == x

\* Cells a call of MeanSym takes on the heap.
MeanNeeds(d, x) == (IF x = Nil THEN 1 ELSE 0) + (IF OnceTodo(d.once) THEN 1 ELSE 0)

MeanSym(x, xn) ==
  /\ w # NoDist
  /\ x \in held \cup {Nil}
  /\ x # Nil => xn = heap[x].n
  /\ x = Nil => Cardinality(held) < MaxObjs - 1
  /\ Cardinality(Free(heap)) >= MeanNeeds(w, x)
  /\ LET b == MeanBuffer(w, heap, x, xn)
         arg == IF xn = NilX THEN Nil ELSE b.x
     IN IF b.heap[b.x].n # w.dim
        THEN /\ ret' = Ret("MeanSym", "panic", [arg |-> arg, n |-> xn, x |-> Nil])
             /\ UNCHANGED <<w, heap, held, fills>>
        ELSE LET s == SetV(w, b.heap)
                 r == MeanReturn(s.w, b.x)
             IN /\ w' = s.w
                /\ heap' = MeanWrite(s.w, s.heap, b.x)
                /\ fills' = fills + s.n
                /\ held' = held \cup {r}
                /\ ret' = Ret("MeanSym", "ok", [arg |-> arg, n |-> xn, x |-> r])
  /\ draws' = <<>>
  /\ UNCHANGED <<src, pc, tx>>

\* ------------------------------------------------------------------ the caller
Garbage(d) == Mat(d, LAMBDA i, j : Whole(0 - 7))

\* The caller overwrites a matrix MeanSym returned to it.
CallerWrite(a) ==
  /\ a \in held
  /\ heap[a].n >= 1
  /\ heap[a] # Garbage(heap[a].n)
  /\ heap' = [heap EXCEPT ![a] = Garbage(heap[a].n)]
  /\ ret' = Ret("caller", "write", a)
  /\ draws' = <<>>
  /\ UNCHANGED <<w, held, src, fills, pc, tx>>

\* The caller drops its pointer; the object is collected unless still referenced.
CallerDrop(a) ==
  /\ a \in held
  /\ held' = held \ {a}
  /\ heap' = IF w # NoDist /\ w.v = a THEN heap ELSE [heap EXCEPT ![a] = NoObj]
  /\ ret' = Ret("caller", "drop", a)
  /\ draws' = <<>>
  /\ UNCHANGED <<w, src, fills, pc, tx>>

\* ------------------------------------------------------------------ density
NegInf == [inf |-> TRUE]

\* logProbSymChol (lines 121-144).  err is the outcome of SolveCholesky; the
\* value of line 143 is kept as a term over its arguments.
LogProbCore(d, cholX, err) ==
  IF err THEN NegInf
  ELSE [inf |-> FALSE, nu |-> d.nu, dim |-> d.dim, logdetx |-> LogDet(cholX),
        tr |-> [v |-> d.cholv.u, u |-> UFromCholesky(cholX)], logdetv |-> d.logdetv]

\* Mutant: the outcome of the factorization is not looked at.
LogProbSymResultNoOk(d, x, err) ==
  IF x.n # d.dim THEN [out |-> "panic", val |-> NegInf]
  ELSE [out |-> "ok", val |-> LogProbCore(d, Factorize(x).chol, err)]

\* Mutant: the factorization comes before the order check.
LogProbSymResultFactorFirst(d, x, err) ==
  LET f == Factorize(x)
  IN IF ~f.ok THEN [out |-> "ok", val |-> NegInf]
     ELSE IF x.n # d.dim THEN [out |-> "panic", val |-> NegInf]
     ELSE [out |-> "ok", val |-> LogProbCore(d, f.chol, err)]

\* LogProbSym (lines 98-109): the order check, then the factorization.
LogProbSymResult(d, x, err) ==
  IF x.n # d.dim THEN [out |-> "panic", val |-> NegInf]
  ELSE LET f == Factorize(x)
       IN IF ~f.ok THEN [out |-> "ok", val |-> NegInf]
          ELSE [out |-> "ok", val |-> LogProbCore(d, f.chol, err)]

\* LogProbSymChol (lines 113-119).
LogProbSymCholResult(d, cholX, err) ==
  IF CholSize(cholX) # d.dim THEN [out |-> "panic", val |-> NegInf]
  ELSE [out |-> "ok", val |-> LogProbCore(d, cholX, err)]

\* math.Exp: exp(-Inf) is 0; otherwise the term [exp |-> l].
Exp(l) == IF l = NegInf THEN Whole(0) ELSE [exp |-> l]

\* ProbSym (lines 90-92).
ProbSymResult(d, x, err) ==
  LET r == LogProbSymResult(d, x, err)
  IN IF r.out = "panic" THEN r ELSE [out |-> "ok", val |-> Exp(r.val)]

\* The distribution after a density evaluation: the methods only read it.
AfterDensity(d) == d

LogProbSym(x, err) ==
  /\ w # NoDist
  /\ LET r == LogProbSymResult(w, x, err)
     IN ret' = Ret("LogProbSym", r.out, [x |-> x, val |-> r.val])
  /\ w' = AfterDensity(w)
  /\ draws' = <<>>
  /\ UNCHANGED <<heap, held, src, fills, pc, tx>>

ProbSym(x, err) ==
  /\ w # NoDist
  /\ LET r == ProbSymResult(w, x, err)
     IN ret' = Ret("ProbSym", r.out, [x |-> x, val |-> r.val])
  /\ w' = AfterDensity(w)
  /\ draws' = <<>>
  /\ UNCHANGED <<heap, held, src, fills, pc, tx>>

CholInputs == { Factorize(m).chol : m \in XSPDInputs }

LogProbSymChol(c, err) ==
  /\ w # NoDist
  /\ LET r == LogProbSymCholResult(w, c, err)
     IN ret' = Ret("LogProbSymChol", r.out, [x |-> c, val |-> r.val])
  /\ w' = AfterDensity(w)
  /\ draws' = <<>>
  /\ UNCHANGED <<heap, held, src, fills, pc, tx>>

\* ------------------------------------------------------------------ sampling
\* What distuv.ChiSquared{K, Src}.Rand() may return on the source value u: a
\* positive real for K > 0; for any other K nothing is known of the value,
\* which may also be NaN.
ChiSqVal(u) == IF u = 0 THEN Whole(1) ELSE Whole(4)
ChiSqOutcomes(K, u) == IF FGt(K, Whole(0)) THEN {ChiSqVal(u)} ELSE {ChiSqVal(u), NaN}
\* norm.Rand() on the source value u.
NormVal(u) == IF u = 0 THEN Whole(0 - 1) ELSE Whole(1)

\* t.SetTri(i, j, x) with the code's 0-based indices.
SetTri(t, i, j, x) ==
  Mat(t.n, LAMBDA r, c : IF r = i + 1 /\ c = j + 1 THEN x ELSE At(t, r, c))

\* Mutant: every row draws with nu degrees of freedom.
ChiSqKFlat(d, i) == d.nu

\* The degrees of freedom of the draw for row i (line 183).
ChiSqK(d, i) == FSub(d.nu, Whole(i))

\* A run of RandChol is st = [t, log, src]: the temporary t, the draws made so
\* far and the source.  The loop of lines 181-187, from the set sts of runs
\* that reach row i.
ChiStep(d, st, i, v) ==
  [t |-> SetTri(st.t, i, i, FSqrt(v)),
   log |-> Append(st.log, [kind |-> "chi2", K |-> ChiSqK(d, i), val |-> v]),
   src |-> Advance(st.src)]

RECURSIVE ChiLoop(_, _, _)
ChiLoop(d, sts, i) ==
  IF i >= d.dim THEN sts
  ELSE ChiLoop(d,
               UNION { { ChiStep(d, st, i, v) : v \in ChiSqOutcomes(ChiSqK(d, i), Peek(st.src)) } :
                       st \in sts },
               i + 1)

\* Line 190 for loop indices (i, j).
NormStep(st, i, j) ==
  [t |-> SetTri(st.t, i, j, NormVal(Peek(st.src))),
   log |-> Append(st.log, [kind |-> "norm", val |-> NormVal(Peek(st.src))]),
   src |-> Advance(st.src)]

\* The loops of lines 188-192.
RECURSIVE NormLoop(_, _, _, _)
NormLoop(d, sts, i, j) ==
  IF i >= d.dim THEN sts
  ELSE IF j >= d.dim THEN NormLoop(d, sts, i + 1, i + 2)
  ELSE NormLoop(d, { NormStep(st, i, j) : st \in sts }, i, j + 1)

\* t.MulTri(a, b) and c.SetFromU(t).
MulTri(a, b) == MatMul(a, b)
SetFromU(t) == [n |-> t.n, u |-> t]

\* The factor RandChol returns for the temporary t (lines 194-199).
RandCholReturn(d, t) == SetFromU(MulTri(t, d.upper))

\* RandChol (lines 174-199): its possible runs, each with the factor returned.
RandCholRuns(d, r) ==
  { [c |-> RandCholReturn(d, st.t), A |-> st.t, log |-> st.log, src |-> st.src] :
      st \in NormLoop(d, ChiLoop(d, {[t |-> ZeroMat(d.dim), log |-> <<>>, src |-> r]}, 0), 0, 1) }

\* Mutant: the product is written into the cached upper factor.
AfterMulTriInPlace(d, t) == [d EXCEPT !.upper = MulTri(t, d.upper)]

\* The distribution after line 194: the receiver of MulTri is the temporary t.
AfterMulTri(d, t) == d

RandChol ==
  /\ w # NoDist
  /\ src.pos < MaxDraws
  /\ \E r \in RandCholRuns(w, src) :
        /\ src' = r.src
        /\ draws' = r.log
        /\ w' = AfterMulTri(w, r.A)
        /\ ret' = Ret("RandChol", "ok", r.c)
  /\ UNCHANGED <<heap, held, fills, pc, tx>>

\* RandSym (lines 147-155).  The output x is the caller's own object and is
\* handled by value: xn is its order, 0 for an empty matrix and NilX for a nil
\* pointer.  x.FromCholesky(&c) takes c's order when x is empty and panics on a
\* non-empty x of another order.
RandSymOrder(xn) == IF xn = NilX THEN 0 ELSE xn

RandSym ==
  /\ w # NoDist
  /\ src.pos < MaxDraws
  /\ \E r \in RandCholRuns(w, src), xn \in {NilX, w.dim} \cup (0..MaxDim) :
        /\ src' = r.src
        /\ draws' = r.log
        /\ w' = AfterMulTri(w, r.A)
        /\ IF RandSymOrder(xn) \notin {0, CholSize(r.c)}
           THEN ret' = Ret("RandSym", "panic", [xn |-> xn])
           ELSE ret' = Ret("RandSym", "ok", [xn |-> xn, x |-> FromCholesky(r.c)])
  /\ UNCHANGED <<heap, held, fills, pc, tx>>

\* ------------------------------------------------------------------ specification
Init ==
  /\ w = NoDist
  /\ heap = [a \in Addrs |-> NoObj]
  /\ held = {}
  /\ src = Source(<<0>>)
  /\ draws = <<>>
  /\ fills = 0
  /\ ret = Ret("none", "ok", 0)
  /\ pc = [t \in Threads |-> "idle"]
  /\ tx = [t \in Threads |-> NoObj]

Next ==
  \/ \E v \in SymInputs, nu \in NuInputs, seed \in SeedInputs : NewWishart(v, nu, seed)
  \/ \E x \in Addrs \cup {Nil}, xn \in {NilX} \cup Dims : MeanSym(x, xn)
  \/ \E x \in XInputs, err \in BOOLEAN : LogProbSym(x, err)
  \/ \E x \in XInputs, err \in BOOLEAN : ProbSym(x, err)
  \/ \E c \in CholInputs, err \in BOOLEAN : LogProbSymChol(c, err)
  \/ RandChol
  \/ RandSym
  \/ \E a \in Addrs : CallerWrite(a)
  \/ \E a \in Addrs : CallerDrop(a)

Spec == Init /\ [][Next]_vars

\* ------------------------------------------------------------------ concurrent MeanSym
\* Goroutines calling MeanSym on one distribution.  A step is one access to
\* shared memory: sync.Once is its atomic load of done, its mutex, the second
\* test of done under the mutex and the deferred store and unlock.

\* Distributions NewWishart returns.
Constructed == { NewWishartResult(v, nu).w : v \in SymInputs, nu \in NuInputs } \ {NoDist}

\* Lines 75-81 for goroutine t; xn is the order of its buffer, NilX for nil.
\* The buffer is the goroutine's own and is kept by value in tx[t].
TCall(t, xn) ==
  /\ pc[t] = "idle"
  /\ LET x == IF xn = NilX THEN ZeroMat(w.dim) ELSE Garbage(xn)
     IN IF x.n # w.dim
        THEN /\ ret' = Ret("MeanSym", "panic", t)
             /\ UNCHANGED <<pc, tx>>
        ELSE /\ tx' = [tx EXCEPT ![t] = x]
             /\ pc' = [pc EXCEPT ![t] = "once"]
             /\ ret' = Ret("MeanSym", "call", t)
  /\ UNCHANGED <<w, heap, held, src, draws, fills>>

\* once.Do: the fast path.
OnceFastDone(o) == o.done = 1

TOnceFast(t) ==
  /\ pc[t] = "once"
  /\ pc' = [pc EXCEPT ![t] = IF OnceFastDone(w.once) THEN "copy" ELSE "lock"]
  /\ UNCHANGED <<w, heap, held, src, draws, fills, ret, tx>>

\* Mutant: no mutual exclusion around the second test of done.
OnceMayLockAlways(o) == TRUE

\* once.Do: o.m.Lock().
OnceMayLock(o) == o.m = 0

TOnceLock(t) ==
  /\ pc[t] = "lock"
  /\ OnceMayLock(w.once)
  /\ w' = [w EXCEPT !.once.m = t]
  /\ pc' = [pc EXCEPT ![t] = "check"]
  /\ UNCHANGED <<heap, held, src, draws, fills, ret, tx>>

\* once.Do: the test of done under the mutex.
TOnceCheck(t) ==
  /\ pc[t] = "check"
  /\ pc' = [pc EXCEPT ![t] = IF OnceTodo(w.once) THEN "alloc" ELSE "unlock"]
  /\ UNCHANGED <<w, heap, held, src, draws, fills, ret, tx>>

\* Line 205.
TSetVAlloc(t) ==
  /\ pc[t] = "alloc"
  /\ Free(heap) # {}
  /\ LET s == SetVAlloc(w, heap)
     IN w' = s.w /\ heap' = s.heap
  /\ fills' = fills + 1
  /\ pc' = [pc EXCEPT ![t] = "fill"]
  /\ UNCHANGED <<held, src, draws, ret, tx>>

\* Line 206.
TSetVFill(t) ==
  /\ pc[t] = "fill"
  /\ heap' = SetVFill(w, heap)
  /\ pc' = [pc EXCEPT ![t] = "store"]
  /\ UNCHANGED <<w, held, src, draws, fills, ret, tx>>

\* once.Do: the deferred atomic store of done.
TOnceStore(t) ==
  /\ pc[t] = "store"
  /\ w' = [w EXCEPT !.once.done = 1]
  /\ pc' = [pc EXCEPT ![t] = "unlock"]
  /\ UNCHANGED <<heap, held, src, draws, fills, ret, tx>>

\* once.Do: the deferred o.m.Unlock().
TOnceUnlock(t) ==
  /\ pc[t] = "unlock"
  /\ w' = [w EXCEPT !.once.m = 0]
  /\ pc' = [pc EXCEPT ![t] = "copy"]
  /\ UNCHANGED <<heap, held, src, draws, fills, ret, tx>>

\* Line 83: the read of w.v (a nil w.v is a nil dereference).
TCopy(t) ==
  /\ pc[t] = "copy"
  /\ IF w.v = Nil
     THEN /\ pc' = [pc EXCEPT ![t] = "idle"]
          /\ tx' = [tx EXCEPT ![t] = NoObj]
          /\ ret' = Ret("MeanSym", "panic", t)
     ELSE /\ tx' = [tx EXCEPT ![t] = CopySym(heap[w.v])]
          /\ pc' = [pc EXCEPT ![t] = "scale"]
          /\ UNCHANGED ret
  /\ UNCHANGED <<w, heap, held, src, draws, fills>>

\* Line 84.
TScale(t) ==
  /\ pc[t] = "scale"
  /\ tx' = [tx EXCEPT ![t] = ScaleSym(w.nu, tx[t])]
  /\ pc' = [pc EXCEPT ![t] = "ret"]
  /\ UNCHANGED <<w, heap, held, src, draws, fills, ret>>

\* Line 85; the caller then lets go of the matrix.
TReturn(t) ==
  /\ pc[t] = "ret"
  /\ ret' = Ret("MeanSym", "ok", t)
  /\ tx' = [tx EXCEPT ![t] = NoObj]
  /\ pc' = [pc EXCEPT ![t] = "idle"]
  /\ UNCHANGED <<w, heap, held, src, draws, fills>>

InitConc ==
  /\ w \in Constructed
  /\ heap = [a \in Addrs |-> NoObj]
  /\ held = {}
  /\ src = Source(<<0>>)
  /\ draws = <<>>
  /\ fills = 0
  /\ ret = Ret("NewWishart", "ok", 0)
  /\ pc = [t \in Threads |-> "idle"]
  /\ tx = [t \in Threads |-> NoObj]

NextConc ==
  \E t \in Threads :
    \/ \E xn \in {NilX} \cup Dims : TCall(t, xn)
    \/ TOnceFast(t)
    \/ TOnceLock(t)
    \/ TOnceCheck(t)
    \/ TSetVAlloc(t)
    \/ TSetVFill(t)
    \/ TOnceStore(t)
    \/ TOnceUnlock(t)
    \/ TCopy(t)
    \/ TScale(t)
    \/ TReturn(t)

SpecConc == InitConc /\ [][NextConc]_vars

\* ------------------------------------------------------------------ sampling alone
\* Distributions of every order up to SampleDim, and only the sampling calls.
SampleDim == 4   \* largest order of V in the sampling-only specification
SeedLen == 3     \* longest sequence a generator of that specification repeats

SampleInputs == UNION { { Gram(u) : u \in Factors(d) } : d \in 1..SampleDim }

SampleConstructed ==
  { NewWishartResult(v, nu).w :
      v \in SampleInputs, nu \in {F(2 * SampleDim - 1), Whole(SampleDim), NaN} } \ {NoDist}

\* The generators that repeat a sequence of up to SeedLen values.
SampleSeeds == UNION { [1..n -> {0, 1}] : n \in 1..SeedLen }

InitSample ==
  /\ w \in SampleConstructed
  /\ heap = [a \in Addrs |-> NoObj]
  /\ held = {}
  /\ src \in { Source(seed) : seed \in SampleSeeds }
  /\ draws = <<>>
  /\ fills = 0
  /\ ret = Ret("NewWishart", "ok", 0)
  /\ pc = [t \in Threads |-> "idle"]
  /\ tx = [t \in Threads |-> NoObj]

NextSample == RandChol \/ RandSym

SpecSample == InitSample /\ [][NextSample]_vars

\* ------------------------------------------------------------------ properties
\* The matrix V a distribution was constructed from, and nu*V.
\* The matrix V a distribution was constructed from, looked up by its factor.
FactorOf == [v \in SPDInputs |-> Factorize(v).chol]
VOf(d) == CHOOSE v \in SPDInputs : FactorOf[v] = d.cholv
ScaledV(nu, v) == Mat(v.n, LAMBDA i, j : FMul(nu, At(v, i, j)))
IsUpperPos(u) ==
  \A i, j \in 1..u.n :
    /\ i > j => At(u, i, j) = Whole(0)
    /\ i = j => FGt(At(u, i, j), Whole(0))
Frozen(d) == <<d.nu, d.dim, d.cholv, d.logdetv, d.upper>>
DensityOps == {"ProbSym", "LogProbSym", "LogProbSymChol"}
SampleOps == {"RandChol", "RandSym"}

\* C1: with goroutines calling MeanSym concurrently on a fresh distribution,
\* the body of setV runs at most once in every interleaving, and a goroutine
\* that is at or past the read of w.v (line 83) finds that one run finished:
\* w.v is set and holds the whole of U^T U; what it returns is nu * U^T U.
C1_SetVOnce ==
  /\ fills <= 1
  /\ \A t \in Threads :
       /\ pc[t] \in {"copy", "scale", "ret"} =>
            /\ fills = 1
            /\ w.once.done = 1
            /\ w.v # Nil
            /\ heap[w.v] = Gram(w.upper)
       /\ pc[t] = "ret" => tx[t] = ScaledV(w.nu, Gram(w.upper))

C1_Witness ==
  /\ \A t \in Threads : t <= 2 => pc[t] = "ret"
  /\ fills = 1

\* C2: NewWishart(v, nu) with nu <= dim-1 panics and leaves no distribution,
\* whatever v is, positive-definite or not; nu = dim-1 is rejected.
C2_NuRejected ==
  (ret.op = "NewWishart" /\ ~ret.val.nu.nan /\ ret.val.nu.h <= 2 * (ret.val.v.n - 1))
    => (ret.out = "panic" /\ w = NoDist)

C2_Witness ==
  /\ ret.op = "NewWishart"
  /\ ret.val.nu = Whole(ret.val.v.n - 1)
  /\ ret.val.v \in NonPDInputs
  /\ ret.out = "panic"

\* C3: NewWishart(v, nu) with nu > dim-1 returns (nil, false), without a panic
\* and without a distribution, when v is not positive-definite; when v is, it
\* returns a distribution holding nu, dim, the upper Cholesky factor of v, its
\* log-determinant and a copy of the factor, with the dense-V cache unset.
C3_Construction ==
  (ret.op = "NewWishart" /\ ~ret.val.nu.nan /\ ret.val.nu.h > 2 * (ret.val.v.n - 1))
    => IF ret.val.v \in SPDInputs
       THEN /\ ret.out = "ok"
            /\ w # NoDist
            /\ w.nu = ret.val.nu
            /\ w.dim = ret.val.v.n
            /\ IsUpperPos(w.cholv.u)
            /\ Gram(w.cholv.u) = ret.val.v
            /\ w.logdetv = LogDet(w.cholv)
            /\ w.upper = w.cholv.u
            /\ w.v = Nil
            /\ w.once.done = 0
            /\ \A a \in Addrs : a \notin held => heap[a] = NoObj
       ELSE ret.out = "fail" /\ w = NoDist

C3_Witness ==
  /\ ret.op = "NewWishart"
  /\ ret.out = "fail"
  /\ ret.val.v.n = MaxDim
  /\ FGt(At(ret.val.v, 1, 1), Whole(0))

\* C4: for a symmetric x of order dim whose factorization fails, LogProbSym
\* returns -Inf and ProbSym returns 0, as ordinary return values, and the call
\* changes nothing of the distribution, the heap or the random source.
C4_NotPDIsZero ==
  [][ (/\ w # NoDist
       /\ ret'.op \in {"LogProbSym", "ProbSym"}
       /\ ret'.val.x.n = w.dim
       /\ ret'.val.x \in XInputs \ XSPDInputs)
      => (/\ ret'.out = "ok"
          /\ ret'.val.val = (IF ret'.op = "LogProbSym" THEN NegInf ELSE Whole(0))
          /\ w' = w /\ heap' = heap /\ held' = held /\ src' = src /\ fills' = fills) ]_vars

C4_Witness ==
  /\ w # NoDist
  /\ ret.op = "ProbSym"
  /\ ret.val.x.n = w.dim
  /\ w.dim = MaxDim
  /\ ret.val.x \in XInputs \ XSPDInputs
  /\ FGt(At(ret.val.x, 1, 1), Whole(0))
  /\ ret.val.val = Whole(0)

\* C5: a call with a matrix of the wrong order panics: LogProbSym and ProbSym
\* with x of order # dim (also when x is not positive-definite), LogProbSymChol
\* with a factor of order # dim, MeanSym with a non-nil buffer of order # dim.
C5_DimensionMismatch ==
  [][ w # NoDist =>
        /\ (ret'.op \in DensityOps /\ ret'.val.x.n # w.dim) => ret'.out = "panic"
        /\ (ret'.op = "MeanSym" /\ ret'.val.n \notin {NilX, w.dim})
             => (ret'.out = "panic" /\ heap' = heap /\ w' = w) ]_vars

C5_Witness ==
  /\ w # NoDist
  /\ ret.op = "LogProbSym"
  /\ ret.val.x.n # w.dim
  /\ ret.val.x \in XInputs \ XSPDInputs
  /\ ret.out = "panic"

\* C7: the cache, once set, holds V and is never a matrix the caller holds;
\* a successful MeanSym leaves nu*V in the matrix it returns, which is the
\* caller's buffer when one was passed and a new object otherwise, and never
\* the cache -- whatever the caller did to matrices returned before.
C7_MeanIsNuV ==
  [][ w' # NoDist =>
      \A V \in {VOf(w')} :
        /\ w'.v # Nil => (heap'[w'.v] = V /\ w'.v \notin held')
        /\ (ret'.op = "MeanSym" /\ ret'.out = "ok") =>
             /\ heap'[ret'.val.x] = ScaledV(w'.nu, V)
             /\ ret'.val.x # w'.v
             /\ IF ret'.val.arg # Nil
                THEN ret'.val.x = ret'.val.arg
                ELSE heap[ret'.val.x] = NoObj ]_vars

C7_Witness ==
  /\ w # NoDist
  /\ ret.op = "MeanSym"
  /\ ret.out = "ok"
  /\ ret.val.arg # Nil
  /\ w.dim = MaxDim
  /\ w.nu.h % 2 = 1
  /\ heap[ret.val.x] = ScaledV(w.nu, VOf(w))

\* C8: after construction no call changes nu, dim, the factor, logdetv or
\* upper; the density calls change nothing; the sampling calls change only the
\* random source; MeanSym changes only the matrix it returns and the cache,
\* which it sets once and never rewrites.
C8_Frame ==
  [][ w # NoDist =>
        /\ w' # NoDist
        /\ Frozen(w') = Frozen(w)
        /\ ret'.op \in DensityOps =>
             (w' = w /\ heap' = heap /\ held' = held /\ src' = src /\ fills' = fills)
        /\ ret'.op \in SampleOps =>
             (w' = w /\ heap' = heap /\ held' = held /\ fills' = fills)
        /\ ret'.op = "MeanSym" =>
             /\ src' = src
             /\ fills' <= 1
             /\ w.v # Nil => (w' = w /\ heap'[w.v] = heap[w.v] /\ fills' = fills)
             /\ w' # w => (w.v = Nil /\ w'.v # Nil /\ fills' = fills + 1)
             /\ \A a \in Addrs : heap'[a] # heap[a] => a \in {ret'.val.x, w'.v} ]_vars

C8_Witness ==
  /\ w # NoDist
  /\ ret.op = "RandSym"
  /\ ret.out = "ok"
  /\ src.pos > 0
  /\ w.v # Nil
  /\ w.dim = MaxDim

\* C9: a RandChol on order dim takes dim chi-squared values and then
\* dim*(dim-1)/2 normal values from the source; the chi-squared draw of row i
\* has nu - i degrees of freedom and its square root is A[i,i]; the normal
\* draws fill A[i,j], j > i, row by row; below the diagonal A is zero; the
\* factor returned is A * upper.  RandSym makes the draws of one RandChol
\* and returns U^T U of that factor.
TriNum(n) == (n * (n - 1)) \div 2
RowMajor(i, j, n) == (i - 1) * n - ((i - 1) * i) \div 2 + (j - i)
ExpectedA(log, n) ==
  Mat(n, LAMBDA i, j : IF i = j THEN FSqrt(log[i].val)
                       ELSE IF i < j THEN log[n + RowMajor(i, j, n)].val
                       ELSE Whole(0))

C9_Bartlett ==
  [][ ret'.op \in SampleOps =>
        IF Len(draws') # w.dim + TriNum(w.dim) THEN FALSE
        ELSE /\ \A k \in 1..w.dim :
                  draws'[k].kind = "chi2" /\ draws'[k].K = FSub(w.nu, Whole(k - 1))
             /\ \A k \in (w.dim + 1)..Len(draws') : draws'[k].kind = "norm"
             /\ src' = [src EXCEPT !.pos = src.pos + Len(draws')]
             /\ \A A \in {ExpectedA(draws', w.dim)} : \A U \in {MatMul(A, w.upper)} :
                  /\ ret'.op = "RandChol" => ret'.val = [n |-> w.dim, u |-> U]
                  /\ (ret'.op = "RandSym" /\ ret'.out = "ok") => ret'.val.x = Gram(U) ]_vars

C9_Witness ==
  /\ ret.op = "RandChol"
  /\ w.dim = SampleDim
  /\ ~w.nu.nan
  /\ draws[1].val # draws[2].val
  /\ draws[w.dim + 3].val # draws[w.dim + 4].val
  /\ At(w.upper, 1, 1) = Whole(2)

\* C10: every distribution NewWishart returned has nu - i > 0 for each row
\* i in 0..dim-1, and no chi-squared draw is made with degrees of freedom
\* that are not positive.
C10_PositiveDof ==
  /\ w # NoDist => \A i \in 0..(w.dim - 1) : FGt(FSub(w.nu, Whole(i)), Whole(0))
  /\ \A k \in 1..Len(draws) : draws[k].kind = "chi2" => FGt(draws[k].K, Whole(0))

====
